---- MODULE Spec2Model ----
(***************************************************************************)
(* Model of mobilenetv2-quantized/Untitled.ipynb: the quantization         *)
(* policies, ConvBlock, InvertedResidual, the MobileNetV2 constructor and  *)
(* get_mobilenet_v2.  Tensors are abstracted to their shape (channels and  *)
(* one spatial extent); constructors are operators that return either the  *)
(* constructed object or the exception that ends construction.             *)
(*                                                                         *)
(* The library constructors the notebook calls are modelled by the         *)
(* argument checks torch performs when the object is built: a convolution  *)
(* needs groups > 0, both channel counts divisible by groups, and no       *)
(* negative tensor dimension; a zero dimension is accepted.  What brevitas *)
(* does with a bit width of None is not modelled: bit widths are drawn     *)
(* from the widths the notebook defines.                                   *)
(***************************************************************************)
EXTENDS Integers, Sequences, FiniteSets, TLC

\* ---------------------------------------------------------------- bounds
MaxCh == 2
MaxH == 3
MaxERNum == 4
MaxRepeat == 2
MaxClasses == 2

\* argument values the actions draw from
KernelSizes == 0 .. 3

ConvStrides == {1, 2}

GroupCounts == 1 .. 2

BlockStrides == 0 .. 3

\* ------------------------------------------------------- program constants
FIRST_LAYER_BIT_WIDTH == 8
LAST_LAYER_BIT_WIDTH == 8
INTERNAL_BIT_WIDTH == 4

\* expand_ratio is a float in the code; the model draws it from the
\* fractions n / ERDen (halves are exact floats and produce rounding ties).
ERDen == 2

\* Python's None: as a class attribute, and as the padding argument (a given
\* padding p is the one-element sequence <<p>>)
None == "None"

NoPadding == <<>>

BitWidths == {INTERNAL_BIT_WIDTH, FIRST_LAYER_BIT_WIDTH, LAST_LAYER_BIT_WIDTH}

\* (weight_bit_width, act_bit_width) of a block: internal, or first layer
BitWidthPairs == {<<INTERNAL_BIT_WIDTH, INTERNAL_BIT_WIDTH>>, <<FIRST_LAYER_BIT_WIDTH, FIRST_LAYER_BIT_WIDTH>>}

\* ------------------------------------------------------ quantizer policies
\* class attribute bit_width of the four Common*Quant policies
CommonIntWeightPerTensorQuant == [bit_width |-> None, scaling_per_output_channel |-> FALSE, signed |-> TRUE]

CommonIntWeightPerChannelQuant == [CommonIntWeightPerTensorQuant EXCEPT !.scaling_per_output_channel = TRUE]

CommonIntActQuant == [bit_width |-> None, scaling_per_output_channel |-> FALSE, signed |-> TRUE]

CommonUintActQuant == [bit_width |-> None, scaling_per_output_channel |-> FALSE, signed |-> FALSE]

\* ------------------------------------------------------------------ layers
\* One record shape for every layer an nn.Sequential can hold.
NoLayer == [status |-> "none", error |-> "", kind |-> "", in_channels |-> 0, out_channels |-> 0,
            kernel_size |-> 0, stride |-> 0, padding |-> 0, groups |-> 0,
            weight_bit_width |-> 0, act_bit_width |-> 0, bn |-> FALSE, activation |-> FALSE]

Raise(kind, err) == [NoLayer EXCEPT !.status = "error", !.error = err, !.kind = kind]

\* QuantConv2d(...): the convolution's constructor.
QuantConv2d(in_channels, out_channels, kernel_size, stride, padding, groups, weight_bit_width) ==
    IF groups <= 0 THEN Raise("QuantConv2d", "ValueError")
    ELSE IF in_channels % groups # 0 \/ out_channels % groups # 0 THEN Raise("QuantConv2d", "ValueError")
    ELSE IF in_channels < 0 \/ out_channels < 0 \/ kernel_size < 0 THEN Raise("QuantConv2d", "RuntimeError")
    ELSE [NoLayer EXCEPT !.status = "ok", !.kind = "QuantConv2d", !.in_channels = in_channels,
                         !.out_channels = out_channels, !.kernel_size = kernel_size, !.stride = stride,
                         !.padding = padding, !.groups = groups, !.weight_bit_width = weight_bit_width]

\* nn.BatchNorm2d(num_features)
BatchNorm2d(num_features) ==
    IF num_features < 0 THEN Raise("BatchNorm2d", "RuntimeError")
    ELSE [NoLayer EXCEPT !.status = "ok", !.kind = "BatchNorm2d", !.in_channels = num_features,
                         !.out_channels = num_features, !.bn = TRUE]

DefaultPaddingNoHalving(kernel_size) == kernel_size - 1

\* padding = (kernel_size - 1) // 2 when padding is None
DefaultPadding(kernel_size) == (kernel_size - 1) \div 2

\* ConvBlock.__init__: conv, then bn, then activation; the first constructor
\* that raises ends the construction.
ConvBlock(in_channels, out_channels, kernel_size, weight_bit_width, act_bit_width, stride, padding, groups) ==
    LET pad == IF padding = NoPadding THEN DefaultPadding(kernel_size) ELSE padding[1]
        conv == QuantConv2d(in_channels, out_channels, kernel_size, stride, pad, groups, weight_bit_width)
        bn == BatchNorm2d(out_channels)
    IN  IF conv.status = "error" THEN Raise("ConvBlock", conv.error)
        ELSE IF bn.status = "error" THEN Raise("ConvBlock", bn.error)
        ELSE [conv EXCEPT !.kind = "ConvBlock", !.act_bit_width = act_bit_width,
                          !.bn = TRUE, !.activation = TRUE]

\* ----------------------------------------------------------------- tensors
\* A tensor is its channel count c and spatial extent h; scale says whether
\* it is a quantized tensor carrying a scale; steps lists the layers applied.
Tensor(c, h) == [status |-> "ok", error |-> "", c |-> c, h |-> h, scale |-> FALSE, steps |-> <<>>]

TensorError(x, err) == [x EXCEPT !.status = "error", !.error = err]

NoTensor == [status |-> "none", error |-> "", c |-> 0, h |-> 0, scale |-> FALSE, steps |-> <<>>]

\* spatial extent a convolution produces: floor((h + 2p - k) / s) + 1
ConvOutSize(h, kernel_size, stride, padding) == ((h + 2 * padding - kernel_size) \div stride) + 1

\* self.conv(x): the convolution of a layer applied to a tensor
ConvForward(layer, x) ==
    IF x.status # "ok" THEN x
    ELSE IF x.c # layer.in_channels \/ layer.kernel_size <= 0 \/ layer.padding < 0
         THEN TensorError(x, "RuntimeError")
    ELSE IF ConvOutSize(x.h, layer.kernel_size, layer.stride, layer.padding) <= 0
         THEN TensorError(x, "RuntimeError")
    ELSE [x EXCEPT !.c = layer.out_channels,
                   !.h = ConvOutSize(x.h, layer.kernel_size, layer.stride, layer.padding),
                   !.scale = FALSE, !.steps = Append(@, "conv")]

\* self.bn(x)
BnForward(layer, x) ==
    IF x.status # "ok" THEN x
    ELSE IF x.c # layer.out_channels THEN TensorError(x, "RuntimeError")
    ELSE [x EXCEPT !.scale = FALSE, !.steps = Append(@, "bn")]

\* self.activation(x): QuantReLU with return_quant_tensor=True
ActForward(layer, x) ==
    IF x.status # "ok" THEN x
    ELSE [x EXCEPT !.scale = TRUE, !.steps = Append(@, "activation")]

\* ConvBlock.forward
ConvBlockForward(self, x) == ActForward(self, BnForward(self, ConvForward(self, x)))

\* -------------------------------------------------------- InvertedResidual
\* Python's round() of the fraction n / d (n >= 0, d > 0): to the nearest
\* integer, a tie to the even one.
PyRound(n, d) ==
    LET q == n \div d
        r == n % d
    IN  IF 2 * r < d THEN q
        ELSE IF 2 * r > d THEN q + 1
        ELSE IF q % 2 = 0 THEN q ELSE q + 1

HiddenDimTruncated(inp, expand_ratio) == (inp * expand_ratio) \div ERDen

\* hidden_dim = int(round(inp * expand_ratio)); expand_ratio is the numerator
\* of the fraction expand_ratio / ERDen
HiddenDim(inp, expand_ratio) == PyRound(inp * expand_ratio, ERDen)

UseResConnectChannelsOnly(inp, oup, stride) == inp = oup

UseResConnectStrideOnly(inp, oup, stride) == stride = 1

\* self.use_res_connect = stride == 1 and inp == oup
UseResConnect(inp, oup, stride) == stride = 1 /\ inp = oup

\* The constructor calls of lines 169-183 in evaluation order.
StageCalls(inp, oup, stride, expand_ratio) ==
    LET hidden_dim == HiddenDim(inp, expand_ratio)
        expansion == ConvBlock(inp, hidden_dim, 1, INTERNAL_BIT_WIDTH, INTERNAL_BIT_WIDTH, 1, NoPadding, 1)
        depthwise == ConvBlock(hidden_dim, hidden_dim, 3, INTERNAL_BIT_WIDTH, INTERNAL_BIT_WIDTH,
                               stride, NoPadding, hidden_dim)
        pointwise == QuantConv2d(hidden_dim, oup, 1, 1, 0, 1, INTERNAL_BIT_WIDTH)
        bn == BatchNorm2d(oup)
    IN  (IF expand_ratio # ERDen THEN <<expansion>> ELSE <<>>) \o <<depthwise, pointwise, bn>>

\* the stages built before the first constructor that raises
RECURSIVE BuiltPrefix(_)
BuiltPrefix(calls) ==
    IF calls = <<>> \/ Head(calls).status = "error" THEN <<>>
    ELSE <<Head(calls)>> \o BuiltPrefix(Tail(calls))

NoBlock == [status |-> "none", error |-> "", stride |-> 0, use_res_connect |-> FALSE, conv |-> <<>>]

\* the block a constructor run leaves: the whole object, or the exception and
\* the stages that were built when it was raised
BuildStages(inp, oup, stride, expand_ratio) ==
    LET calls == StageCalls(inp, oup, stride, expand_ratio)
        built == BuiltPrefix(calls)
    IN  IF Len(built) < Len(calls)
        THEN [status |-> "error", error |-> calls[Len(built) + 1].error, stride |-> stride,
              use_res_connect |-> UseResConnect(inp, oup, stride), conv |-> built]
        ELSE [status |-> "ok", error |-> "", stride |-> stride,
              use_res_connect |-> UseResConnect(inp, oup, stride), conv |-> built]

InvertedResidualLateAssert(inp, oup, stride, expand_ratio) ==
    LET b == BuildStages(inp, oup, stride, expand_ratio)
    IN  IF b.status = "ok" /\ stride \notin {1, 2}
        THEN [b EXCEPT !.status = "error", !.error = "AssertionError"]
        ELSE b

\* InvertedResidual.__init__
InvertedResidual(inp, oup, stride, expand_ratio) ==
    IF stride \notin {1, 2}
    THEN [NoBlock EXCEPT !.status = "error", !.error = "AssertionError", !.stride = stride]
    ELSE BuildStages(inp, oup, stride, expand_ratio)

\* one layer of the nn.Sequential applied to a tensor
LayerForward(layer, x) ==
    IF layer.kind = "ConvBlock" THEN ConvBlockForward(layer, x)
    ELSE IF layer.kind = "QuantConv2d" THEN ConvForward(layer, x)
    ELSE BnForward(layer, x)

\* self.conv(x): the layers in order
RECURSIVE SequentialForward(_, _)
SequentialForward(layers, x) ==
    IF layers = <<>> THEN x
    ELSE SequentialForward(Tail(layers), LayerForward(Head(layers), x))

\* x + y
TensorAdd(x, y) ==
    IF y.status # "ok" THEN y
    ELSE IF x.c # y.c \/ x.h # y.h THEN TensorError(y, "RuntimeError")
    ELSE [y EXCEPT !.steps = Append(@, "add")]

InvertedResidualForwardReevaluating(self, x) ==
    LET flag == self.stride = 1
    IN  [self |-> [self EXCEPT !.use_res_connect = flag],
         branch |-> IF flag THEN "residual" ELSE "plain",
         out |-> IF flag THEN TensorAdd(x, SequentialForward(self.conv, x))
                 ELSE SequentialForward(self.conv, x)]

\* InvertedResidual.forward: the block after the call, the branch taken and
\* the value returned
InvertedResidualForward(self, x) ==
    [self |-> self,
     branch |-> IF self.use_res_connect THEN "residual" ELSE "plain",
     out |-> IF self.use_res_connect THEN TensorAdd(x, SequentialForward(self.conv, x))
             ELSE SequentialForward(self.conv, x)]

\* ------------------------------------------------------------- MobileNetV2
\* MobileNetV2.__init__ as written: the base class expression nn.module is
\* read as nn.Module, the base of the other two classes.  The body binds four
\* locals and returns; the table it binds holds two empty rows.
MobileNetV2(num_classes, width_mult, round_average_pool) ==
    [status |-> "ok", error |-> "", block |-> "InvertedResidual", input_channel |-> 32,
     last_channel |-> 1280, inverted_residual_setting |-> << <<>>, <<>> >>, features |-> <<>>]

NoNet == [status |-> "none", error |-> "", block |-> "", input_channel |-> 0,
          last_channel |-> 0, inverted_residual_setting |-> <<>>, features |-> <<>>]

\* the local channels of get_mobilenet_v2
MobilenetV2Channels ==
    << <<32>>, <<16>>, <<24, 24>>, <<32, 32, 32>>, <<64, 64, 64, 64, 96, 96, 96>>, <<160, 160, 160>>, <<320>> >>

\* A table row is complete when it is a (t, c, n, s) tuple.
RowIsComplete(row) == Len(row) = 4

TableIsWellFormed(table) == table # <<>> /\ \A r \in 1 .. Len(table) : RowIsComplete(table[r])

\* ---------------------------------------------------- the assembler's loop
\* The loop over the configuration table is absent from the notebook; it is
\* taken from the design: the first block of a group takes the group's stride
\* and every later one stride 1, and each block's input channel count is the
\* output channel count of the block before it.
Entry(inp, oup, stride, expand_ratio) ==
    [inp |-> inp, oup |-> oup, stride |-> stride, block |-> InvertedResidual(inp, oup, stride, expand_ratio)]

\* one group from the output channel counts of its blocks
RECURSIVE GroupFromChannels(_, _, _, _, _)
GroupFromChannels(outs, input_channel, stride, expand_ratio, index) ==
    IF index > Len(outs) THEN <<>>
    ELSE <<Entry(input_channel, outs[index], IF index = 1 THEN stride ELSE 1, expand_ratio)>>
         \o GroupFromChannels(outs, outs[index], stride, expand_ratio, index + 1)

\* the groups of a list of (outs, stride, expand_ratio) descriptions
RECURSIVE GroupsFrom(_, _)
GroupsFrom(descr, input_channel) ==
    IF descr = <<>> THEN <<>>
    ELSE LET d == Head(descr)
         IN  <<GroupFromChannels(d.outs, input_channel, d.stride, d.expand_ratio, 1)>>
             \o GroupsFrom(Tail(descr), d.outs[Len(d.outs)])

\* a table row (t, c, n, s): n blocks of c output channels
FeaturesFromTable(table, input_channel) ==
    GroupsFrom([r \in 1 .. Len(table) |->
                   [outs |-> [j \in 1 .. table[r][3] |-> table[r][2]],
                    stride |-> table[r][4], expand_ratio |-> table[r][1]]],
               input_channel)

\* the per-group lists of get_mobilenet_v2: the first list is the stem's
\* output, every later list a group
FeaturesFromChannels(channels, stride, expand_ratio) ==
    GroupsFrom([g \in 1 .. Len(channels) - 1 |->
                   [outs |-> channels[g + 1], stride |-> stride, expand_ratio |-> expand_ratio]],
               channels[1][1])

\* ------------------------------------------------------------------- state
VARIABLES cb, cbArgs, cbIn, cbOut, ir, irArgs, irIn, irOut, irBranches,
          net, netArgs, channels, features, featuresFrom

convVars == <<cb, cbArgs, cbIn, cbOut>>

irVars == <<ir, irArgs, irIn, irOut, irBranches>>

netVars == <<net, netArgs, channels, features, featuresFrom>>

vars == <<cb, cbArgs, cbIn, cbOut, ir, irArgs, irIn, irOut, irBranches,
          net, netArgs, channels, features, featuresFrom>>

NoArgs == [in_channels |-> 0, out_channels |-> 0, kernel_size |-> 0, weight_bit_width |-> 0,
           act_bit_width |-> 0, stride |-> 0, padding |-> NoPadding, groups |-> 0]

Paddings == {NoPadding, <<1>>}

InitConv == cb = NoLayer /\ cbArgs = NoArgs /\ cbIn = NoTensor /\ cbOut = NoTensor

\* cb = ConvBlock(...)
NewConvBlock ==
    \E i \in 1 .. MaxCh, o \in 0 .. MaxCh, k \in KernelSizes, wa \in BitWidthPairs,
       s \in ConvStrides, p \in Paddings, g \in GroupCounts :
        /\ cbArgs' = [in_channels |-> i, out_channels |-> o, kernel_size |-> k, weight_bit_width |-> wa[1],
                      act_bit_width |-> wa[2], stride |-> s, padding |-> p, groups |-> g]
        /\ cb' = ConvBlock(i, o, k, wa[1], wa[2], s, p, g)
        /\ cbIn' = NoTensor
        /\ cbOut' = NoTensor
        /\ UNCHANGED <<irVars, netVars>>

\* cb(x) on a constructed block
CallConvBlock ==
    /\ cb.status = "ok"
    /\ \E c \in 1 .. MaxCh, h \in 1 .. MaxH :
        /\ cbIn' = Tensor(c, h)
        /\ cbOut' = ConvBlockForward(cb, Tensor(c, h))
    /\ UNCHANGED <<cb, cbArgs>>
    /\ UNCHANGED <<irVars, netVars>>

NoBlockArgs == [inp |-> 0, oup |-> 0, stride |-> 0, expand_ratio |-> 0]

InitIR == ir = NoBlock /\ irArgs = NoBlockArgs /\ irIn = NoTensor /\ irOut = NoTensor /\ irBranches = {}

\* ir = InvertedResidual(inp, oup, stride, expand_ratio / ERDen)
NewInvertedResidual ==
    \E inp \in 1 .. MaxCh, oup \in 1 .. MaxCh, stride \in BlockStrides, expand_ratio \in 1 .. MaxERNum :
        /\ irArgs' = [inp |-> inp, oup |-> oup, stride |-> stride, expand_ratio |-> expand_ratio]
        /\ ir' = InvertedResidual(inp, oup, stride, expand_ratio)
        /\ irIn' = NoTensor
        /\ irOut' = NoTensor
        /\ irBranches' = {}
        /\ UNCHANGED <<convVars, netVars>>

\* ir(x) on a constructed block
CallInvertedResidual ==
    /\ ir.status = "ok"
    /\ \E c \in 1 .. MaxCh, h \in 1 .. MaxH :
        LET r == InvertedResidualForward(ir, Tensor(c, h))
        IN  /\ ir' = r.self
            /\ irIn' = Tensor(c, h)
            /\ irOut' = r.out
            /\ irBranches' = irBranches \cup {r.branch}
    /\ UNCHANGED <<irArgs>>
    /\ UNCHANGED <<convVars, netVars>>

NoNetArgs == [num_classes |-> 0, width_mult |-> 0, round_average_pool |-> FALSE]

\* width_mult in tenths
WidthMults == {10}

ExpandRatios == {ERDen, 6 * ERDen}

TableRows == {<<t, c, n, s>> : t \in ExpandRatios, c \in {16, 24}, n \in 1 .. MaxRepeat, s \in {1, 2}}

SecondRows == {<<6 * ERDen, c, MaxRepeat, 2>> : c \in {24, 32}}

Tables == {<<r>> : r \in TableRows} \cup {<<r1, r2>> : r1 \in TableRows, r2 \in SecondRows}

InitNet ==
    /\ net = NoNet /\ netArgs = NoNetArgs /\ channels = <<>>
    /\ features = <<>> /\ featuresFrom = "none"

\* net = MobileNetV2(num_classes, width_mult, round_average_pool)
NewMobileNetV2 ==
    \E num_classes \in 1 .. MaxClasses, width_mult \in WidthMults, round_average_pool \in BOOLEAN :
        /\ netArgs' = [num_classes |-> num_classes, width_mult |-> width_mult,
                       round_average_pool |-> round_average_pool]
        /\ net' = MobileNetV2(num_classes, width_mult, round_average_pool)
        /\ UNCHANGED <<channels, features, featuresFrom, convVars, irVars>>

\* get_mobilenet_v2(): binds channels and returns
GetMobilenetV2 ==
    /\ channels' = MobilenetV2Channels
    /\ UNCHANGED <<net, netArgs, features, featuresFrom, convVars, irVars>>

\* the assembler's loop over a well-formed configuration table
BuildFeaturesFromTable ==
    /\ net.status = "ok"
    /\ \E table \in Tables :
        /\ TableIsWellFormed(table)
        /\ features' = FeaturesFromTable(table, net.input_channel)
    /\ featuresFrom' = "table"
    /\ UNCHANGED <<net, netArgs, channels, convVars, irVars>>

\* the assembler's loop over the channel lists of get_mobilenet_v2
BuildFeaturesFromChannels ==
    /\ channels # <<>>
    /\ \E stride \in {1, 2}, expand_ratio \in ExpandRatios :
        features' = FeaturesFromChannels(channels, stride, expand_ratio)
    /\ featuresFrom' = "channels"
    /\ UNCHANGED <<net, netArgs, channels, convVars, irVars>>

Init == InitConv /\ InitIR /\ InitNet

NextConv == NewConvBlock \/ CallConvBlock

NextIR == NewInvertedResidual \/ CallInvertedResidual

NextNet == NewMobileNetV2 \/ GetMobilenetV2 \/ BuildFeaturesFromTable \/ BuildFeaturesFromChannels

Next == NextConv \/ NextIR \/ NextNet

Spec == Init /\ [][Next]_vars

SpecConv == Init /\ [][NextConv]_vars

SpecIR == Init /\ [][NextIR]_vars

SpecNet == Init /\ [][NextNet]_vars

\* ------------------------------------------------------------------ claims
Abs(n) == IF n < 0 THEN -n ELSE n

IsOdd(n) == n % 2 = 1

\* C1: a constructed InvertedResidual stores use_res_connect = TRUE exactly
\* when stride == 1 and in_channels == out_channels.
C1_UseResConnectIff ==
    ir.status = "ok" =>
        (ir.use_res_connect <=> (irArgs.stride = 1 /\ irArgs.inp = irArgs.oup))

C1_Witness == ir.status = "ok" /\ ir.use_res_connect /\ irArgs.stride = 1 /\ irArgs.inp = irArgs.oup

\* C2: a stride outside {1, 2} ends the construction with the assertion's
\* error before any stage is built, and no forward call reaches such a block.
C2_InvalidStrideRejected ==
    (irArgs # NoBlockArgs /\ irArgs.stride \notin {1, 2}) =>
        /\ ir.status = "error"
        /\ ir.error = "AssertionError"
        /\ ir.conv = <<>>
        /\ irOut.status = "none"
        /\ irBranches = {}

C2_Witness == irArgs.stride = 3 /\ ir.status = "error" /\ ir.error = "AssertionError"

\* C3: the stages of a constructed block are the 1x1 expansion ConvBlock
\* (present exactly when expand_ratio is not 1), the kernel-3 depthwise
\* ConvBlock with groups = hidden_dim and the given stride, the 1x1 projection
\* without activation, and batch normalization, in that order; hidden_dim is
\* in_channels x expand_ratio rounded to the nearest integer (a tie to the
\* even one, as round() does), and each stage
\* takes the channel count the stage before it produces.
C3_StageSequence ==
    ir.status = "ok" =>
        LET n == Len(ir.conv)
            expanded == irArgs.expand_ratio # ERDen
            dw == ir.conv[n - 2]
            pw == ir.conv[n - 1]
            bn == ir.conv[n]
            hidden == dw.in_channels
        IN  /\ n = IF expanded THEN 4 ELSE 3
            /\ 2 * Abs(hidden * ERDen - irArgs.inp * irArgs.expand_ratio) <= ERDen
            /\ 2 * Abs(hidden * ERDen - irArgs.inp * irArgs.expand_ratio) = ERDen => hidden % 2 = 0
            /\ expanded =>
                  /\ ir.conv[1].kind = "ConvBlock" /\ ir.conv[1].kernel_size = 1
                  /\ ir.conv[1].out_channels = hidden /\ ir.conv[1].activation
                  /\ ir.conv[1].stride = 1
            /\ dw.kind = "ConvBlock" /\ dw.kernel_size = 3 /\ dw.out_channels = hidden
            /\ dw.groups = hidden /\ dw.stride = irArgs.stride /\ dw.activation
            /\ pw.kind = "QuantConv2d" /\ pw.kernel_size = 1 /\ pw.stride = 1 /\ pw.padding = 0
            /\ pw.out_channels = irArgs.oup /\ ~pw.activation /\ ~pw.bn
            /\ pw.weight_bit_width = INTERNAL_BIT_WIDTH
            /\ bn.kind = "BatchNorm2d" /\ ~bn.activation
            /\ ir.conv[1].in_channels = irArgs.inp
            /\ \A i \in 2 .. n : ir.conv[i].in_channels = ir.conv[i - 1].out_channels

C3_Witness ==
    /\ ir.status = "ok" /\ Len(ir.conv) = 4
    /\ irArgs.inp = 1 /\ irArgs.expand_ratio = 3 /\ ir.conv[1].out_channels = 2

\* C4 as stated: with the default padding and stride 1 the output extent
\* equals the input extent for every kernel_size >= 1.
C4_SameSizeEveryKernel ==
    (cbOut.status = "ok" /\ cbArgs.padding = NoPadding /\ cbArgs.stride = 1 /\ cbArgs.kernel_size >= 1)
        => cbOut.h = cbIn.h

\* C4 amended: with the default padding the output extent n is
\* floor((H + 2*padding - kernel_size) / stride) + 1; for stride 1 it equals H
\* for every odd kernel_size and every H >= 1 (and the call succeeds when the
\* channels match), and is H - 1 for every even kernel_size.
C4_SameSizeOddKernel ==
    (cbIn.status = "ok" /\ cbArgs.padding = NoPadding /\ cbArgs.kernel_size >= 1) =>
        LET k == cbArgs.kernel_size
            st == cbArgs.stride
            room == cbIn.h + 2 * cb.padding - k
        IN  /\ 2 * cb.padding <= k - 1 /\ k - 1 <= 2 * cb.padding + 1
            /\ cbOut.status = "ok" =>
                  /\ (cbOut.h - 1) * st <= room /\ room < cbOut.h * st
                  /\ (st = 1 /\ IsOdd(k)) => cbOut.h = cbIn.h
                  /\ (st = 1 /\ ~IsOdd(k)) => cbOut.h = cbIn.h - 1
            /\ (st = 1 /\ IsOdd(k) /\ cbIn.c = cb.in_channels) => cbOut.status = "ok"

C4_Witness ==
    /\ cbOut.status = "ok" /\ cbArgs.padding = NoPadding /\ cbArgs.stride = 1
    /\ cbArgs.kernel_size = 3 /\ cbIn.h = 2 /\ cbOut.h = 2

\* C6: a ConvBlock construction with a non-positive kernel_size or a
\* non-positive out_channels ends in an error and yields no block.
C6_NonPositiveRejected ==
    (cbArgs # NoArgs /\ (cbArgs.kernel_size <= 0 \/ cbArgs.out_channels <= 0)) => cb.status = "error"

C10_ForwardKeepsFlag ==
    [][irBranches' # {} =>
          /\ ir' = ir
          /\ irBranches' = {IF ir.use_res_connect THEN "residual" ELSE "plain"}
          /\ irOut'.status = "ok" =>
                ((irOut'.steps[Len(irOut'.steps)] = "add") <=> ir.use_res_connect)]_vars

C10_Witness ==
    /\ ir.status = "ok" /\ ir.use_res_connect /\ irBranches = {"residual"}
    /\ irOut.status = "ok" /\ irOut.steps[Len(irOut.steps)] = "add"
====
